---- MODULE Spec2Model ----
(***************************************************************************)
(* Model of pages/2_Application_Drive.py: the Space Report page.           *)
(*                                                                         *)
(* A data frame is a sequence of rows; a row is a record with the columns  *)
(* of the Application table.  Timestamps are whole hours since             *)
(* 2024-01-01 00:00, calendar dates are whole days since 2024-01-01,       *)
(* sizes are whole gigabytes and percentages whole percents (floats whose  *)
(* fractional part is zero).  Readings carry a value in every column, as   *)
(* the data model of the report describes them.  A string is a sequence    *)
(* of one-character strings.                                               *)
(***************************************************************************)
EXTENDS Integers, Sequences, FiniteSets, TLC

\* ------------------------------------------------------------------ bounds
MaxRows == 2
MaxTick == 3
MaxPercent == 100

\* ------------------------------------------------------------ input domain
\* Drive identifiers, listed in the order sorted() gives them.
DriveNames == <<"C:", "D:">>

Range(s) == {s[i] : i \in 1..Len(s)}

Drives == Range(DriveNames)

\* Timestamps of readings: every sixteenth hour from the epoch, so that two
\* readings can be on consecutive calendar dates and less than 24 hours apart.
Dates == {16 * k : k \in 0..MaxTick}

SizeProfiles ==
    { [TotalSizeGB |-> 100, UsedSpaceGB |-> 95,  FreeSpaceGB |-> 5,  FreeSpacePercent |-> 5],
      [TotalSizeGB |-> 200, UsedSpaceGB |-> 180, FreeSpaceGB |-> 20, FreeSpacePercent |-> 10] }

Reading(t, d, p) ==
    [Date |-> t, Drive |-> d, TotalSizeGB |-> p.TotalSizeGB, UsedSpaceGB |-> p.UsedSpaceGB,
     FreeSpaceGB |-> p.FreeSpaceGB, FreeSpacePercent |-> p.FreeSpacePercent]

Readings == {Reading(t, d, p) : t \in Dates, d \in Drives, p \in SizeProfiles}

\* Search strings typed into the search box.
Queries == { <<>>, <<"c", ":">>, <<"c", ".">>, <<"1", ".", "0">>, <<"(">> }

\* --------------------------------------------------------------- dataframes
\* df['Date'].dt.date
dt_date(t) == t \div 24

\* Variant: the difference of the calendar dates instead of the whole days.
timedelta_days_calendar(later, earlier) == (later \div 24) - (earlier \div 24)

\* Timedelta.days
timedelta_days(later, earlier) == (later - earlier) \div 24

Perms(n) == {p \in [1..n -> 1..n] : \A i, j \in 1..n : i # j => p[i] # p[j]}

IsSorted(t, ascending) ==
    \A i \in 1..(Len(t) - 1) :
        IF ascending THEN t[i].Date <= t[i + 1].Date ELSE t[i].Date >= t[i + 1].Date

\* df.sort_values('Date', ascending=...): the default sort is not stable, so
\* the order of rows with equal Date is any order; the value is the set of
\* the possible results.
sort_values(t, ascending) ==
    {s \in {[i \in 1..Len(t) |-> t[p[i]]] : p \in Perms(Len(t))} : IsSorted(s, ascending)}

\* SELECT * ... ORDER BY Date DESC LIMIT 1000: the tables the query returns.
QueryResults ==
    {t \in UNION {[1..n -> Readings] : n \in 0..MaxRows} : IsSorted(t, FALSE)}

DrivesOf(t) == {t[i].Drive : i \in 1..Len(t)}

\* sorted(list of drives)
sorted(S) == SelectSeq(DriveNames, LAMBDA d : d \in S)

\* df[df['Drive'].isin(selected_drives)]
isin(t, drives) == SelectSeq(t, LAMBDA r : r.Drive \in Range(drives))

\* df[df['Drive'] == drive]
drive_eq(t, drive) == SelectSeq(t, LAMBDA r : r.Drive = drive)

\* Variant: the end of the range is exclusive.
date_between_exclusive_end(t, start, end) ==
    SelectSeq(t, LAMBDA r : dt_date(r.Date) >= start /\ dt_date(r.Date) < end)

\* df[(df['Date'].dt.date >= start_date) & (df['Date'].dt.date <= end_date)]
date_between(t, start, end) ==
    SelectSeq(t, LAMBDA r : dt_date(r.Date) >= start /\ dt_date(r.Date) <= end)

RECURSIVE Sum(_, _)
Sum(t, col) == IF t = <<>> THEN 0 ELSE t[1][col] + Sum(Tail(t), col)

Abs(n) == IF n < 0 THEN -n ELSE n

RECURSIVE Gcd(_, _)
Gcd(a, b) == IF b = 0 THEN a ELSE Gcd(b, a % b)

\* a / b with b > 0, as a fraction in lowest terms.
Divide(a, b) ==
    LET g == Gcd(Abs(a), b) IN [num |-> a \div g, den |-> b \div g]

Zero == [num |-> 0, den |-> 1]

\* ---------------------------------------------------------- get_date_range
Min(S) == CHOOSE x \in S : \A y \in S : x <= y
Max(S) == CHOOSE x \in S : \A y \in S : x >= y

get_date_range(t) ==
    LET ds == {dt_date(t[i].Date) : i \in 1..Len(t)}
    IN  IF t = <<>> THEN <<0, 0>> ELSE <<Min(ds), Max(ds)>>

\* -------------------------------------------------------- get_latest_stats
None == [kind |-> "None"]

\* groupby('Drive').first().reset_index(): one row per drive, in the order of
\* the drives, holding the first row of the drive in the frame.
groupby_first(t) ==
    LET ds == sorted(DrivesOf(t))
    IN  [k \in 1..Len(ds) |->
            t[CHOOSE i \in 1..Len(t) :
                /\ t[i].Drive = ds[k]
                /\ \A j \in 1..(i - 1) : t[j].Drive # ds[k]]]

\* Variant: a drive at exactly 10 counts as critical.
critical_le(latest) == SelectSeq(latest, LAMBDA r : r.FreeSpacePercent <= 10)

critical(latest) == SelectSeq(latest, LAMBDA r : r.FreeSpacePercent < 10)

stats_of(latest) ==
    [kind |-> "dict",
     total_size |-> Sum(latest, "TotalSizeGB"),
     total_used |-> Sum(latest, "UsedSpaceGB"),
     total_free |-> Sum(latest, "FreeSpaceGB"),
     avg_free_percent |-> Divide(Sum(latest, "FreeSpacePercent"), Len(latest)),
     critical_drives |-> Len(critical(latest)),
     latest_data |-> latest]

\* Variant: an empty selection keeps no drive.
narrow_always(t, selected) == isin(t, selected)

narrow(t, selected) == IF selected # <<>> THEN isin(t, selected) ELSE t

\* Variant: the frame is sorted oldest first, so a drive keeps its oldest row.
get_latest_stats_oldest(t, selected) ==
    IF t = <<>> THEN {None}
    ELSE LET d == narrow(t, selected)
         IN  IF d = <<>> THEN {None}
             ELSE {stats_of(groupby_first(s)) : s \in sort_values(d, TRUE)}

\* Variant: an empty selection narrows the frame as any other selection does.
get_latest_stats_always_isin(t, selected) ==
    IF t = <<>> THEN {None}
    ELSE LET d == isin(t, selected)
         IN  IF d = <<>> THEN {None}
             ELSE {stats_of(groupby_first(s)) : s \in sort_values(d, FALSE)}

\* The set of the values get_latest_stats(df, selected_drives) can return.
get_latest_stats(t, selected) ==
    IF t = <<>> THEN {None}
    ELSE LET d == narrow(t, selected)
         IN  IF d = <<>> THEN {None}
             ELSE {stats_of(groupby_first(s)) : s \in sort_values(d, FALSE)}

\* ------------------------------------------------------ status classifiers
get_status_class(free_percent) ==
    IF free_percent < 5 THEN "status-emergency"
    ELSE IF free_percent < 10 THEN "status-critical"
    ELSE IF free_percent < 20 THEN "status-warning"
    ELSE "status-healthy"

\* Variant: the thresholds belong to the lower band.
get_status_text_le(free_percent) ==
    IF free_percent <= 5 THEN "Emergency"
    ELSE IF free_percent <= 10 THEN "Critical"
    ELSE IF free_percent <= 20 THEN "Warning"
    ELSE "Healthy"

get_status_text(free_percent) ==
    IF free_percent < 5 THEN "Emergency"
    ELSE IF free_percent < 10 THEN "Critical"
    ELSE IF free_percent < 20 THEN "Warning"
    ELSE "Healthy"

\* Variant: the colour of the critical band reaches up to 10.
get_border_color_le10(free_percent) ==
    IF free_percent < 5 THEN "#ff6b6b"
    ELSE IF free_percent <= 10 THEN "#ff8787"
    ELSE IF free_percent < 20 THEN "#ffd43b"
    ELSE "#51cf66"

get_border_color(free_percent) ==
    IF free_percent < 5 THEN "#ff6b6b"
    ELSE IF free_percent < 10 THEN "#ff8787"
    ELSE IF free_percent < 20 THEN "#ffd43b"
    ELSE "#51cf66"

\* One pass of the drive-card loop of the Drive Status tab.
drive_card(row) ==
    [Drive |-> row.Drive,
     free_percent |-> row.FreeSpacePercent,
     status_class |-> get_status_class(row.FreeSpacePercent),
     status_text |-> get_status_text(row.FreeSpacePercent),
     used_percent |-> 100 - row.FreeSpacePercent,
     border_color |-> get_border_color(row.FreeSpacePercent)]

\* ------------------------------------------------------------ string forms
Digits == <<"0", "1", "2", "3", "4", "5", "6", "7", "8", "9">>

RECURSIVE int_str(_)
int_str(n) ==
    IF n < 10 THEN <<Digits[n + 1]>> ELSE int_str(n \div 10) \o <<Digits[(n % 10) + 1]>>

two_digits(n) == <<Digits[(n \div 10) + 1], Digits[(n % 10) + 1]>>

\* str() of a float with no fractional part
float_str(x) == int_str(x) \o <<".", "0">>

drive_str(d) == IF d = "C:" THEN <<"C", ":">> ELSE <<"D", ":">>

date_str(t) == <<"2", "0", "2", "4", "-", "0", "1", "-">> \o two_digits(dt_date(t) + 1)

\* str() of a Timestamp
timestamp_str(t) ==
    date_str(t) \o <<" ">> \o two_digits(t % 24) \o <<":", "0", "0", ":", "0", "0">>

\* Timestamp.strftime('%Y-%m-%d %H:%M')
strftime(t) == date_str(t) \o <<" ">> \o two_digits(t % 24) \o <<":", "0", "0">>

\* row.astype(str)
astype_str(r) ==
    << timestamp_str(r.Date), drive_str(r.Drive), float_str(r.TotalSizeGB),
       float_str(r.UsedSpaceGB), float_str(r.FreeSpaceGB), float_str(r.FreeSpacePercent) >>

lower(c) == IF c = "C" THEN "c" ELSE IF c = "D" THEN "d" ELSE c

\* re.compile(pat): an unbalanced parenthesis raises re.error
re_compiles(pat) == \A k \in 1..Len(pat) : pat[k] # "("

\* One pattern character against one character of the subject, re.IGNORECASE:
\* '.' matches any character, any other character matches itself.
re_char(p, c) == p = "." \/ lower(p) = lower(c)

\* Series.str.contains(pat, case=False): pat is a regular expression and the
\* test is re.search(pat, s, re.IGNORECASE).
str_contains(s, pat) ==
    \E i \in 1..(Len(s) - Len(pat) + 1) :
        \A k \in 1..Len(pat) : re_char(pat[k], s[i + k - 1])

\* lambda row: row.astype(str).str.contains(search_query, case=False, na=False).any()
row_matches(r, query) ==
    \E c \in 1..Len(astype_str(r)) : str_contains(astype_str(r)[c], query)

\* The row of the data table: Date formatted, the numbers rounded to 2 places
\* (a whole number is its own rounding).
display_row(r) ==
    [Date |-> strftime(r.Date), Drive |-> r.Drive, TotalSizeGB |-> r.TotalSizeGB,
     UsedSpaceGB |-> r.UsedSpaceGB, FreeSpaceGB |-> r.FreeSpaceGB,
     FreeSpacePercent |-> r.FreeSpacePercent]

\* The tables the Data Table tab can show for a valid search string.
data_table(t, query) ==
    LET shown == IF query # <<>>
                 THEN SelectSeq(t, LAMBDA r : row_matches(r, query))
                 ELSE t
    IN  {[i \in 1..Len(s) |-> display_row(s[i])] : s \in sort_values(shown, FALSE)}

\* ---------------------------------------------------------- trend traces
RECURSIVE unique(_)
unique(s) ==
    IF s = <<>> THEN <<>>
    ELSE LET r == unique(SubSeq(s, 1, Len(s) - 1))
         IN  IF s[Len(s)] \in Range(r) THEN r ELSE Append(r, s[Len(s)])

drive_column(t) == [i \in 1..Len(t) |-> t[i].Drive]

\* One trace per drive of the filtered frame; a trace is the set of its points.
trend_traces(t) ==
    LET ds == unique(drive_column(t))
    IN  [k \in 1..Len(ds) |->
            [name |-> ds[k],
             points |-> {<<r.Date, r.UsedSpaceGB>> : r \in Range(drive_eq(t, ds[k]))}]]

\* ---------------------------------------------------------- growth analysis
growth_days(drive_df) == timedelta_days(drive_df[Len(drive_df)].Date, drive_df[1].Date)

avg_daily_growth(growth, days) == IF days > 0 THEN Divide(growth, days) ELSE Zero

\* Variant: one reading is enough for a growth row.
has_growth_one(drive_df) == Len(drive_df) >= 1

has_growth(drive_df) == Len(drive_df) >= 2

\* The row appended for a drive whose sorted frame is drive_df.
growth_row(drive, drive_df) ==
    LET first_used == drive_df[1].UsedSpaceGB
        last_used == drive_df[Len(drive_df)].UsedSpaceGB
        growth == last_used - first_used
        days == growth_days(drive_df)
    IN  [Drive |-> drive, Initial |-> first_used, Current |-> last_used,
         Growth |-> growth, AvgDailyGrowth |-> avg_daily_growth(growth, days)]

\* The values growth_data can have after the loop over selected_drives.
RECURSIVE growth_loop(_, _)
growth_loop(t, selected) ==
    IF selected = <<>> THEN {<<>>}
    ELSE LET drive == Head(selected)
             rest == growth_loop(t, Tail(selected))
             frames == sort_values(drive_eq(t, drive), TRUE)
         IN  UNION { IF has_growth(f)
                     THEN {<<growth_row(drive, f)>> \o g : g \in rest}
                     ELSE rest : f \in frames }

\* The selections st.multiselect can return: the drives of a subset of the
\* options, in the order they were picked.
Selections(options) ==
    {s \in UNION {[1..n -> Range(options)] : n \in 0..Len(options)} :
        \A i, j \in 1..Len(s) : i # j => s[i] # s[j]}

\* ------------------------------------------------------------------- state
VARIABLES
    pc,               \* position in main: "start", "filters", "tabs", "done", "exception"
    df,               \* the frame get_space_data returned
    date_range,       \* <<min_date, max_date>>
    all_drives,
    start_date, end_date, selected_drives,
    filtered_df,
    stats,
    rendered,         \* what main has put on the page
    traces,           \* traces of the Space Usage Trends chart
    cards,            \* drive cards of the Drive Status tab
    growth_data,
    search_query,
    display_df        \* the table shown in the Data Table tab

vars == <<pc, df, date_range, all_drives, start_date, end_date, selected_drives,
          filtered_df, stats, rendered, traces, cards, growth_data, search_query,
          display_df>>

Init ==
    /\ pc = "start"
    /\ df = <<>>
    /\ date_range = <<0, 0>>
    /\ all_drives = <<>>
    /\ start_date = 0
    /\ end_date = 0
    /\ selected_drives = <<>>
    /\ filtered_df = <<>>
    /\ stats = None
    /\ rendered = {}
    /\ traces = <<>>
    /\ cards = <<>>
    /\ growth_data = <<>>
    /\ search_query = <<>>
    /\ display_df = <<>>

\* Variant: the empty frame is not checked for.
Load_no_empty_check ==
    /\ pc = "start"
    /\ \E data \in QueryResults :
          /\ df' = data
          /\ date_range' = get_date_range(data)
          /\ all_drives' = sorted(DrivesOf(data))
          /\ rendered' = rendered \cup {"filters"}
          /\ pc' = "filters"
    /\ UNCHANGED <<start_date, end_date, selected_drives, filtered_df, stats, traces,
                   cards, growth_data, search_query, display_df>>

\* main, up to the filter widgets: fetch, the empty check, the date range and
\* the list of drives.
Load ==
    /\ pc = "start"
    /\ \E data \in QueryResults :
          /\ df' = data
          /\ IF data = <<>>
             THEN /\ rendered' = rendered \cup {"warning_no_data"}
                  /\ pc' = "done"
                  /\ UNCHANGED <<date_range, all_drives>>
             ELSE /\ date_range' = get_date_range(data)
                  /\ all_drives' = sorted(DrivesOf(data))
                  /\ rendered' = rendered \cup {"filters"}
                  /\ pc' = "filters"
    /\ UNCHANGED <<start_date, end_date, selected_drives, filtered_df, stats, traces,
                   cards, growth_data, search_query, display_df>>

\* The calendar dates st.date_input returns.
Days == 0..dt_date(16 * MaxTick)

\* main, from the values of the filter widgets to the key metrics.
Filter ==
    /\ pc = "filters"
    /\ \E from \in Days, to \in Days, selected \in Selections(all_drives) :
          /\ start_date' = from
          /\ end_date' = to
          /\ selected_drives' = selected
          /\ LET f == narrow(date_between(df, from, to), selected)
             IN  /\ filtered_df' = f
                 /\ IF f = <<>>
                    THEN /\ rendered' = rendered \cup {"warning_no_filtered"}
                         /\ pc' = "done"
                         /\ UNCHANGED stats
                    ELSE \E s \in get_latest_stats(f, selected) :
                            /\ stats' = s
                            /\ IF s = None
                               THEN /\ rendered' = rendered \cup {"error_stats"}
                                    /\ pc' = "done"
                               ELSE /\ rendered' = rendered \cup {"metrics"}
                                    /\ pc' = "tabs"
    /\ UNCHANGED <<df, date_range, all_drives, traces, cards, growth_data,
                   search_query, display_df>>

\* main, the four tabs; query is the content of the search box.
RenderTabs ==
    /\ pc = "tabs"
    /\ rendered' = rendered \cup {"tabs"}
    /\ traces' = trend_traces(filtered_df)
    /\ cards' = [i \in 1..Len(stats.latest_data) |-> drive_card(stats.latest_data[i])]
    /\ growth_data' \in growth_loop(filtered_df, selected_drives)
    /\ \E query \in Queries :
          /\ search_query' = query
          /\ IF query # <<>> /\ ~re_compiles(query)
             THEN /\ pc' = "exception"
                  /\ UNCHANGED display_df
             ELSE /\ pc' = "done"
                  /\ display_df' \in data_table(filtered_df, query)
    /\ UNCHANGED <<df, date_range, all_drives, start_date, end_date, selected_drives,
                   filtered_df, stats>>

Next == Load \/ Filter \/ RenderTabs

Spec == Init /\ [][Next]_vars

\* ---------------------------------------------- the classifiers on their own
\* A row whose free-space percentage is free_percent.
status_row(drive, free_percent) ==
    [Date |-> 0, Drive |-> drive, TotalSizeGB |-> 100, UsedSpaceGB |-> 100 - free_percent,
     FreeSpaceGB |-> free_percent, FreeSpacePercent |-> free_percent]

\* One pass of the drive-card loop on a row of any free-space percentage; the
\* card replaces the card of the pass before.
Evaluate ==
    /\ \E drive \in Drives, free_percent \in 0..MaxPercent :
          cards' = <<drive_card(status_row(drive, free_percent))>>
    /\ UNCHANGED <<pc, df, date_range, all_drives, start_date, end_date, selected_drives,
                   filtered_df, stats, rendered, traces, growth_data, search_query,
                   display_df>>

NextStatus == Evaluate

StatusSpec == Init /\ [][NextStatus]_vars

\* ================================================================== claims
Filtered == df # <<>> /\ pc \notin {"start", "filters"}

TabsRendered == "tabs" \in rendered

RowsOf(t, drive) == {i \in 1..Len(t) : t[i].Drive = drive}

\* ---- C1
Bands == {"Emergency", "Critical", "Warning", "Healthy"}

InRange(r) == start_date <= r.Date \div 24 /\ r.Date \div 24 <= end_date

DriveKept(r) == selected_drives = <<>> \/ \E k \in 1..Len(selected_drives) : selected_drives[k] = r.Drive

\* C3: the date filter is inclusive on both ends: the filtered frame holds
\* exactly the readings whose calendar date is from start_date to end_date
\* (and whose drive the drive selection keeps), in the order of the frame.
C3_DateRangeInclusive ==
    Filtered => filtered_df = SelectSeq(df, LAMBDA r : InRange(r) /\ DriveKept(r))

C3_Witness ==
    /\ Filtered
    /\ start_date < end_date
    /\ \E i \in 1..Len(filtered_df) :
          filtered_df[i].Date \div 24 = start_date /\ filtered_df[i].Date % 24 # 0
    /\ \E i \in 1..Len(filtered_df) :
          filtered_df[i].Date \div 24 = end_date /\ filtered_df[i].Date % 24 # 0

\* ---- C4
GrowthRowsOf(drive) == {i \in 1..Len(growth_data) : growth_data[i].Drive = drive}

Earliest(t, drive) == {i \in RowsOf(t, drive) : \A j \in RowsOf(t, drive) : t[i].Date <= t[j].Date}

Latest(t, drive) == {i \in RowsOf(t, drive) : \A j \in RowsOf(t, drive) : t[i].Date >= t[j].Date}

\* C4: a selected drive with at least 2 readings in the filtered frame has one
\* growth row, whose Growth is the UsedSpaceGB of a latest-dated reading minus
\* the UsedSpaceGB of an earliest-dated reading of the drive; a drive with
\* exactly 1 reading has no growth row.
C4_GrowthLastMinusFirst ==
    TabsRendered =>
        \A k \in 1..Len(selected_drives) :
            LET d == selected_drives[k]
                n == Cardinality(RowsOf(filtered_df, d))
            IN  /\ n >= 2 =>
                      /\ Cardinality(GrowthRowsOf(d)) = 1
                      /\ \A g \in GrowthRowsOf(d) :
                            \E e \in Earliest(filtered_df, d), l \in Latest(filtered_df, d) :
                                growth_data[g].Growth =
                                    filtered_df[l].UsedSpaceGB - filtered_df[e].UsedSpaceGB
                /\ n = 1 => GrowthRowsOf(d) = {}

C4_Witness ==
    /\ TabsRendered
    /\ \E g \in 1..Len(growth_data) :
          /\ growth_data[g].Growth > 0
          /\ \E e \in Earliest(filtered_df, growth_data[g].Drive) :
                e \notin Latest(filtered_df, growth_data[g].Drive)

\* ---- C5
WholeDays(drive) ==
    LET ds == {filtered_df[i].Date : i \in RowsOf(filtered_df, drive)}
    IN  (Max(ds) - Min(ds)) \div 24

\* C5: the Avg Daily Growth of a growth row is its Growth divided by the whole
\* days from the earliest to the latest reading of the drive in the filtered
\* frame, and is 0 when that number of whole days is 0.
C5_AvgDailyGrowth ==
    TabsRendered =>
        \A g \in 1..Len(growth_data) :
            LET days == WholeDays(growth_data[g].Drive)
                avg == growth_data[g].AvgDailyGrowth
            IN  /\ avg.den > 0
                /\ days = 0 => avg.num = 0
                /\ days > 0 => avg.num * days = growth_data[g].Growth * avg.den

C5_Witness ==
    /\ TabsRendered
    /\ \E g \in 1..Len(growth_data) :
          /\ WholeDays(growth_data[g].Drive) = 0
          /\ growth_data[g].Growth # 0
          /\ growth_data[g].AvgDailyGrowth.num = 0
          /\ \E i, j \in RowsOf(filtered_df, growth_data[g].Drive) :
                filtered_df[i].Date \div 24 # filtered_df[j].Date \div 24

\* ---- C6
RECURSIVE Total(_, _, _)
Total(t, col, n) == IF n = 0 THEN 0 ELSE Total(t, col, n - 1) + t[n][col]

\* C6: total_size, total_used and total_free are the sums of TotalSizeGB,
\* UsedSpaceGB and FreeSpaceGB over the latest row of each drive, and
\* critical_drives is the number of drives whose latest row has
\* FreeSpacePercent strictly below 10.
C6_TotalsAndCritical ==
    stats.kind = "dict" =>
        LET latest == stats.latest_data
        IN  /\ stats.total_size = Total(latest, "TotalSizeGB", Len(latest))
            /\ stats.total_used = Total(latest, "UsedSpaceGB", Len(latest))
            /\ stats.total_free = Total(latest, "FreeSpaceGB", Len(latest))
            /\ stats.critical_drives =
                  Cardinality({i \in 1..Len(latest) : latest[i].FreeSpacePercent < 10})

C6_Witness ==
    /\ stats.kind = "dict"
    /\ stats.critical_drives = 1
    /\ \E i, j \in 1..Len(stats.latest_data) :
          /\ stats.latest_data[i].FreeSpacePercent = 10
          /\ stats.latest_data[j].FreeSpacePercent < 10

\* ---- C7
\* C7: an empty fetched frame shows the 'No space report data available'
\* warning and nothing else; a non-empty frame that the filters empty shows the
\* 'No data available for selected filters' warning and no metrics or tabs; in
\* both cases the render has ended.
C7_EmptySetsWarnAndStop ==
    /\ (pc # "start" /\ df = <<>>) => (pc = "done" /\ rendered = {"warning_no_data"})
    /\ (Filtered /\ filtered_df = <<>>) =>
          (pc = "done" /\ rendered = {"filters", "warning_no_filtered"})

C7_Witness ==
    /\ Filtered
    /\ filtered_df = <<>>
    /\ selected_drives # <<>>
    /\ start_date <= end_date
    /\ "warning_no_filtered" \in rendered

\* ---- C8
SubstringAt(s, q, i) == \A k \in 1..Len(q) : lower(q[k]) = lower(s[i + k - 1])

ContainsIgnoreCase(s, q) == \E i \in 1..(Len(s) - Len(q) + 1) : SubstringAt(s, q, i)

SubstringMatch(r, q) ==
    q = <<>> \/ \E c \in 1..Len(astype_str(r)) : ContainsIgnoreCase(astype_str(r)[c], q)

\* C8: the data table shows exactly the rows of the filtered frame that have a
\* column whose string form contains the search string as a substring, letter
\* case ignored; with an empty search string it shows every row.
C8_SearchIsSubstring ==
    (TabsRendered /\ pc \in {"done", "exception"}) =>
        \A v \in Range(display_df) \cup {display_row(filtered_df[i]) : i \in 1..Len(filtered_df)} :
            Cardinality({i \in 1..Len(display_df) : display_df[i] = v})
              = Cardinality({i \in 1..Len(filtered_df) :
                                /\ display_row(filtered_df[i]) = v
                                /\ SubstringMatch(filtered_df[i], search_query)})

\* ---- C9
BandTriples ==
    { <<"status-emergency", "Emergency", "#ff6b6b">>,
      <<"status-critical", "Critical", "#ff8787">>,
      <<"status-warning", "Warning", "#ffd43b">>,
      <<"status-healthy", "Healthy", "#51cf66">> }

Triple(card) == <<card.status_class, card.status_text, card.border_color>>

Severity(card) ==
    IF card.status_text = "Emergency" THEN 3
    ELSE IF card.status_text = "Critical" THEN 2
    ELSE IF card.status_text = "Warning" THEN 1
    ELSE 0

C9_OneBand ==
    \A i \in 1..Len(cards) :
        /\ Triple(cards[i]) \in BandTriples
        /\ cards[i].free_percent < 5 => cards[i].status_text = "Emergency"
        /\ cards[i].free_percent >= 20 => cards[i].status_text = "Healthy"

C9_Step ==
    (cards # <<>> /\ cards' # <<>>) =>
        /\ cards'[1].free_percent = cards[1].free_percent => Triple(cards'[1]) = Triple(cards[1])
        /\ cards'[1].free_percent >= cards[1].free_percent => Severity(cards'[1]) <= Severity(cards[1])

C10_StatsNeverNone ==
    /\ "error_stats" \notin rendered
    /\ (Filtered /\ filtered_df # <<>>) => stats.kind = "dict"

C10_Witness ==
    /\ Filtered
    /\ filtered_df # <<>>
    /\ selected_drives = <<>>
    /\ stats.kind = "dict"
    /\ Cardinality(DrivesOf(filtered_df)) = 2

\* ---- C11
DrivesInRange == {df[i].Drive : i \in {j \in 1..Len(df) : InRange(df[j])}}

NamesOf(t) == {t[i].name : i \in 1..Len(t)}

\* C11: with an empty drive selection and readings in the date range, the
\* render goes on to the key metrics, whose latest rows cover every drive with
\* a reading in the date range; the trend traces and the drive cards cover the
\* same drives, and the growth analysis has no growth row.
C11_EmptySelection ==
    (Filtered /\ selected_drives = <<>> /\ DrivesInRange # {}) =>
        /\ "metrics" \in rendered
        /\ stats.kind = "dict"
        /\ DrivesOf(stats.latest_data) = DrivesInRange
        /\ TabsRendered =>
              /\ NamesOf(traces) = DrivesInRange
              /\ DrivesOf(cards) = DrivesInRange
              /\ growth_data = <<>>

C11_Witness ==
    /\ TabsRendered
    /\ selected_drives = <<>>
    /\ growth_data = <<>>
    /\ Len(traces) = 1
    /\ \E i, j \in RowsOf(filtered_df, traces[1].name) :
          /\ filtered_df[i].Date < filtered_df[j].Date
          /\ filtered_df[i].UsedSpaceGB # filtered_df[j].UsedSpaceGB

====
